---- MODULE Spec2Model ----
(***************************************************************************)
(* A model of the object store of src/src/main.rs: the blob and tree       *)
(* codecs (GitBlob, GitTree, tree_parse_one, tree_parse,                   *)
(* tree_leaf_sort_key), and the store operations write_object and          *)
(* read_object over a filesystem .git/objects/<xx>/<rest>.                 *)
(*                                                                         *)
(* Bytes are the integers 0..255.  A Vec<u8> is a sequence of bytes; a     *)
(* Rust String is the sequence of its UTF-8 bytes (String's Ord is the     *)
(* byte-wise lexicographic order of exactly these bytes).  Sequence        *)
(* positions of the source are 0-based; raw[i + 1] reads raw_bytes[i].     *)
(***************************************************************************)
EXTENDS Integers, Sequences, FiniteSets, TLC

VARIABLES
    \* -- the tree codec (GitTree::serialize, tree_parse) --
    leaves,      \* GitTree.leaves handed to serialize
    serialized,  \* the outcome of GitTree::serialize, or NotYet
    raw_bytes,   \* the payload tree_parse walks
    index,       \* tree_parse: let mut index
    result,      \* tree_parse: let mut result
    pc,          \* position of the codec run
    \* -- the object store (write_object, read_object) --
    files,       \* .git/objects/<xx>/<rest>  ->  file content
    dirs,        \* the two-character subdirectories of .git/objects
    ret,         \* what the last completed call returned (or how it panicked)
    ncalls,      \* number of calls made so far
    \* -- one write_object call, step by step, with I/O that may fail --
    wpc,         \* position inside write_object
    wobj,        \* the envelope, digest and compressed bytes of the call
    pre          \* the filesystem as it was when the call started

vars == <<leaves, serialized, raw_bytes, index, result, pc,
          files, dirs, ret, ncalls, wpc, wobj, pre>>
codecVars == <<leaves, serialized, raw_bytes, index, result, pc>>
storeVars == <<files, dirs, ret, ncalls>>
writeVars == <<wpc, wobj, pre>>

(***************************************************************************)
(* Program constants.                                                      *)
(***************************************************************************)
SP == 32
NUL == 0
BACKSLASH == 92
ModeLen == 6
ShaLen == 20
ASCII_0 == 48

str_blob == <<98, 108, 111, 98>>
str_tree == <<116, 114, 101, 101>>

(***************************************************************************)
(* Bounds of the model.                                                    *)
(***************************************************************************)
MaxLeaves == 3
MaxRawLeaves == 2
MaxBlobLen == 2
MaxCalls == 3

(***************************************************************************)
(* Library functions the program calls.                                    *)
(***************************************************************************)
Rep(b, n) == [i \in 1..n |-> b]

\* hex::encode / format!("{:02x}", b): lowercase hex, two characters a byte
HexDigit(n) == IF n < 10 THEN ASCII_0 + n ELSE 87 + n
HexByte(b) == <<HexDigit(b \div 16), HexDigit(b % 16)>>

RECURSIVE hex_encode(_)
hex_encode(bytes) ==
    IF bytes = <<>> THEN <<>>
    ELSE HexByte(Head(bytes)) \o hex_encode(Tail(bytes))

\* the value of a hex character, -1 when it is none
HexVal(c) ==
    IF c >= 48 /\ c <= 57 THEN c - 48
    ELSE IF c >= 97 /\ c <= 102 THEN c - 87
    ELSE IF c >= 65 /\ c <= 70 THEN c - 55
    ELSE -1

\* hex::decode: Err on an odd length or on a character that is no hex digit
RECURSIVE hex_decode(_)
hex_decode(s) ==
    IF s = <<>> THEN [ok |-> TRUE, bytes |-> <<>>]
    ELSE IF Len(s) = 1 THEN [ok |-> FALSE, bytes |-> <<>>]
    ELSE IF HexVal(s[1]) < 0 \/ HexVal(s[2]) < 0 THEN [ok |-> FALSE, bytes |-> <<>>]
    ELSE LET rest == hex_decode(SubSeq(s, 3, Len(s)))
         IN  IF ~rest.ok THEN rest
             ELSE [ok |-> TRUE,
                   bytes |-> <<16 * HexVal(s[1]) + HexVal(s[2])>> \o rest.bytes]

\* `b as char` pushed on a String: the UTF-8 encoding of the code point U+00b
char_from_u8(b) ==
    IF b < 128 THEN <<b>> ELSE <<192 + (b \div 64), 128 + (b % 64)>>

\* Ord of str / String: byte-wise lexicographic
RECURSIVE LexLess(_, _)
LexLess(a, b) ==
    IF b = <<>> THEN FALSE
    ELSE IF a = <<>> THEN TRUE
    ELSE IF Head(a) # Head(b) THEN Head(a) < Head(b)
    ELSE LexLess(Tail(a), Tail(b))

\* slice::starts_with
starts_with(s, prefix) ==
    Len(s) >= Len(prefix) /\ SubSeq(s, 1, Len(prefix)) = prefix

(***************************************************************************)
(* The tree codec.                                                         *)
(***************************************************************************)
GitTreeLeaf(mode, path, sha_hash) ==
    [mode |-> mode, path |-> path, sha_hash |-> sha_hash]

Panic(msg) == [ok |-> FALSE, panic |-> msg]

\* tree_parse_one, the first loop: mode bytes up to the space
RECURSIVE scan_mode(_, _, _, _)
scan_mode(raw, start_index, i, mode) ==
    IF i >= Len(raw) THEN Panic("raw_bytes: index out of bounds")
    ELSE IF raw[i + 1] = SP THEN [ok |-> TRUE, index |-> i, mode |-> mode]
    ELSE IF i - start_index >= ModeLen THEN Panic("mode: index out of bounds")
    ELSE scan_mode(raw, start_index, i + 1,
                   [mode EXCEPT ![i - start_index + 1] = raw[i + 1]])

\* tree_parse_one: `if mode.len() == 5 { mode = ['0', mode[0], .. mode[4]] }`
\* on `mode`, the array [u8; 6]
normalize_mode(mode) ==
    IF Len(mode) = 5
    THEN <<ASCII_0, mode[1], mode[2], mode[3], mode[4], mode[5]>>
    ELSE mode

\* tree_parse_one, the second loop: path bytes up to the NUL
RECURSIVE scan_path(_, _, _)
scan_path(raw, i, path) ==
    IF i >= Len(raw) THEN Panic("raw_bytes: index out of bounds")
    ELSE IF raw[i + 1] = NUL THEN [ok |-> TRUE, index |-> i, path |-> path]
    ELSE scan_path(raw, i + 1, path \o char_from_u8(raw[i + 1]))

\* scan_sha with the bug of stopping at the end of the payload: the digest
\* is built from the bytes that are there
RECURSIVE scan_sha_stops_at_end(_, _, _, _)
scan_sha_stops_at_end(raw, i, n, sha_hash) ==
    IF n = 0 \/ i >= Len(raw)
    THEN [ok |-> TRUE, index |-> i, sha_hash |-> sha_hash]
    ELSE scan_sha_stops_at_end(raw, i + 1, n - 1, sha_hash \o HexByte(raw[i + 1]))

\* scan_sha with the bug of no bounds check: the index moves on by 20
\* whatever the payload holds
RECURSIVE scan_sha_unchecked(_, _, _, _)
scan_sha_unchecked(raw, i, n, sha_hash) ==
    IF n = 0 THEN [ok |-> TRUE, index |-> i, sha_hash |-> sha_hash]
    ELSE scan_sha_unchecked(raw, i + 1, n - 1,
             sha_hash \o HexByte(IF i < Len(raw) THEN raw[i + 1] ELSE 0))

\* tree_parse_one, the third loop: 20 digest bytes, rendered as hex
RECURSIVE scan_sha(_, _, _, _)
scan_sha(raw, i, n, sha_hash) ==
    IF n = 0 THEN [ok |-> TRUE, index |-> i, sha_hash |-> sha_hash]
    ELSE IF i >= Len(raw) THEN Panic("raw_bytes: index out of bounds")
    ELSE scan_sha(raw, i + 1, n - 1, sha_hash \o HexByte(raw[i + 1]))

tree_parse_one(raw, start_index) ==
    LET m == scan_mode(raw, start_index, start_index, Rep(0, ModeLen))
    IN  IF ~m.ok THEN m
        ELSE LET p == scan_path(raw, m.index + 1, <<>>)
             IN  IF ~p.ok THEN p
                 ELSE LET s == scan_sha(raw, p.index + 1, ShaLen, <<>>)
                      IN  IF ~s.ok THEN s
                          ELSE [ok |-> TRUE,
                                leaf |-> GitTreeLeaf(normalize_mode(m.mode),
                                                     p.path, s.sha_hash),
                                index |-> s.index]

\* tree_parse as a whole: the loop run to its end
RECURSIVE tree_parse_from(_, _, _)
tree_parse_from(raw, i, acc) ==
    IF i < Len(raw)
    THEN LET one == tree_parse_one(raw, i)
         IN  IF ~one.ok THEN one
             ELSE tree_parse_from(raw, one.index, Append(acc, one.leaf))
    ELSE [ok |-> TRUE, leaves |-> acc]

tree_parse(raw) == tree_parse_from(raw, 0, <<>>)

tree_leaf_sort_key(leaf) ==
    IF starts_with(leaf.mode, <<49, 48>>)
    THEN leaf.path
    ELSE leaf.path \o <<BACKSLASH>>

\* slice::sort_by_key: a stable sort
RECURSIVE insert_by_key(_, _)
insert_by_key(sorted, x) ==
    IF sorted = <<>> THEN <<x>>
    ELSE IF LexLess(tree_leaf_sort_key(x), tree_leaf_sort_key(Head(sorted)))
         THEN <<x>> \o sorted
    ELSE <<Head(sorted)>> \o insert_by_key(Tail(sorted), x)

RECURSIVE sort_by_key(_)
sort_by_key(ls) ==
    IF ls = <<>> THEN <<>>
    ELSE insert_by_key(sort_by_key(SubSeq(ls, 1, Len(ls) - 1)), ls[Len(ls)])

\* GitTree::serialize, the loop over the sorted leaves
RECURSIVE emit_leaves(_)
emit_leaves(ls) ==
    IF ls = <<>> THEN [ok |-> TRUE, bytes |-> <<>>]
    ELSE LET leaf == Head(ls)
             hash_bytes == hex_decode(leaf.sha_hash)
             rest == emit_leaves(Tail(ls))
         IN  IF ~hash_bytes.ok THEN Panic("hex::decode: unwrap on Err")
             ELSE IF ~rest.ok THEN rest
             ELSE [ok |-> TRUE,
                   bytes |-> leaf.mode \o <<SP>> \o leaf.path \o <<NUL>>
                             \o hash_bytes.bytes \o rest.bytes]

GitTree_serialize(ls) == emit_leaves(sort_by_key(ls))

GitTree_deserialize(data) == tree_parse(data)

(***************************************************************************)
(* Objects.                                                                *)
(***************************************************************************)
GitBlob(blob_data) == [kind |-> "blob", blob_data |-> blob_data]
GitTree(ls) == [kind |-> "tree", leaves |-> ls]

\* GitObject::fmt
fmt(object) == IF object.kind = "blob" THEN str_blob ELSE str_tree

\* GitBlob::serialize
GitBlob_serialize(blob_data) == [ok |-> TRUE, bytes |-> blob_data]

\* GitObject::serialize, dispatched on the implementing type
serialize(object) ==
    IF object.kind = "blob"
    THEN GitBlob_serialize(object.blob_data)
    ELSE GitTree_serialize(object.leaves)

(***************************************************************************)
(* The libraries behind write_object and read_object.                      *)
(***************************************************************************)
\* usize::to_string: decimal digits, most significant first
RECURSIVE to_string(_)
to_string(n) ==
    IF n < 10 THEN <<ASCII_0 + n>>
    ELSE to_string(n \div 10) \o <<ASCII_0 + (n % 10)>>

\* Sha1::new / update / finalize.  SHA-1 itself is too large to evaluate
\* here; the model is a 20-byte digest folded over the input bytes and
\* their positions, started from the bytes of SHA-1's initial state.  The
\* store relies on it for two things only: it is a function of the bytes,
\* and distinct inputs of the model have distinct digests.
Sha1Init ==
    <<103, 69, 35, 1, 239, 205, 171, 137, 152, 186,
      220, 254, 16, 50, 84, 118, 195, 210, 225, 240>>

\* the digest byte of slot k: folded over the input bytes at the 0-based
\* positions k - 1, k - 1 + 20, k - 1 + 40, ...
RECURSIVE Sha1Slot(_, _, _)
Sha1Slot(h, bytes, i) ==
    IF i >= Len(bytes) THEN h
    ELSE Sha1Slot((h * 31 + bytes[i + 1] + 7 * (i \div ShaLen) + 1) % 256,
                  bytes, i + ShaLen)

Sha1(bytes) == [k \in 1..ShaLen |-> Sha1Slot(Sha1Init[k], bytes, k - 1)]

\* the sum of f[lo..hi]
RECURSIVE SumRange(_, _, _)
SumRange(f, lo, hi) ==
    IF lo > hi THEN 0
    ELSE IF lo = hi THEN f[lo]
    ELSE LET mid == (lo + hi) \div 2
         IN  SumRange(f, lo, mid) + SumRange(f, mid + 1, hi)

\* Adler-32, the checksum that ends a zlib stream: a is 1 plus the sum of the
\* bytes, b the sum of the values a takes, both modulo 65521
Adler32(bytes) ==
    LET n == Len(bytes)
        a == (1 + SumRange(bytes, 1, n)) % 65521
        b == (n + SumRange([i \in 1..n |-> (n - i + 1) * bytes[i]], 1, n)) % 65521
    IN  <<b \div 256, b % 256, a \div 256, a % 256>>

\* ZlibEncoder::write_all / finish: a zlib stream of the bytes.  The model
\* writes the stream with one stored block: the two header bytes, the block
\* header with the length and its complement, the bytes, the checksum.
ZlibHeader == <<120, 156>>

StoredBlockHeader(n) ==
    <<1, n % 256, n \div 256, 255 - (n % 256), 255 - (n \div 256)>>

zlib_encode(bytes) ==
    ZlibHeader \o StoredBlockHeader(Len(bytes)) \o bytes \o Adler32(bytes)

\* ZlibDecoder::read_to_end: Err unless the stream is whole and consistent
zlib_decode(data) ==
    IF Len(data) < 11 \/ SubSeq(data, 1, 2) # ZlibHeader
    THEN [ok |-> FALSE, bytes |-> <<>>]
    ELSE LET n == data[4] + 256 * data[5]
             body == SubSeq(data, 8, Len(data) - 4)
         IN  IF /\ SubSeq(data, 3, 7) = StoredBlockHeader(n)
                /\ Len(body) = n
                /\ SubSeq(data, Len(data) - 3, Len(data)) = Adler32(body)
             THEN [ok |-> TRUE, bytes |-> body]
             ELSE [ok |-> FALSE, bytes |-> <<>>]

\* Iterator::position: the 0-based index of the first b, -1 for None
RECURSIVE position_from(_, _, _)
position_from(bytes, b, i) ==
    IF i >= Len(bytes) THEN -1
    ELSE IF bytes[i + 1] = b THEN i
    ELSE position_from(bytes, b, i + 1)

position(bytes, b) == position_from(bytes, b, 0)

(***************************************************************************)
(* write_object and read_object.                                           *)
(***************************************************************************)
\* envelope with the bug of a length field that counts the NUL as well
envelope_length_off_by_one(object_fmt, bytes) ==
    object_fmt \o <<SP>> \o to_string(Len(bytes) + 1) \o <<NUL>> \o bytes

\* write_object: `result`, the bytes that are hashed and compressed
envelope(object_fmt, bytes) ==
    object_fmt \o <<SP>> \o to_string(Len(bytes)) \o <<NUL>> \o bytes

\* hashed with the bug of digesting the serialized payload alone
hashed_payload_alone(enveloped, bytes) == bytes

\* write_object: what hasher.update is given
hashed(enveloped, bytes) == enveloped

\* format!(".git/objects/{}/{}", &sha[..2], &sha[2..])
object_path(sha_string) ==
    [dir |-> SubSeq(sha_string, 1, 2),
     file |-> SubSeq(sha_string, 3, Len(sha_string))]

\* write_object up to the filesystem calls: what it will create and return
write_plan(object) ==
    LET s == serialize(object)
    IN  IF ~s.ok THEN s
        ELSE LET enveloped == envelope(fmt(object), s.bytes)
                 sha_string == hex_encode(Sha1(hashed(enveloped, s.bytes)))
             IN  [ok |-> TRUE,
                  sha_string |-> sha_string,
                  path |-> object_path(sha_string),
                  compressed |-> zlib_encode(enveloped)]

\* fs::write on the map of files
fs_write(fs, path, contents) ==
    [q \in (DOMAIN fs) \cup {path} |-> IF q = path THEN contents ELSE fs[q]]

\* byte_contents with the bug of starting at the NUL, not after it
byte_contents_from_nul(decoded_bytes, index_of_first_null) ==
    SubSeq(decoded_bytes, index_of_first_null + 1, Len(decoded_bytes))

\* read_object: &decoded_bytes[index_of_first_null + 1..]
byte_contents(decoded_bytes, index_of_first_null) ==
    SubSeq(decoded_bytes, index_of_first_null + 2, Len(decoded_bytes))

read_object(fs, hash) ==
    LET path == object_path(hash)
    IN  IF path \notin DOMAIN fs THEN Panic("fs::read: unwrap on Err")
        ELSE LET dec == zlib_decode(fs[path])
             IN  IF ~dec.ok THEN Panic("read_to_end: unwrap on Err")
                 ELSE LET decoded_bytes == dec.bytes
                          index_of_first_whitespace == position(decoded_bytes, SP)
                          index_of_first_null == position(decoded_bytes, NUL)
                      IN  IF index_of_first_whitespace < 0 \/ index_of_first_null < 0
                          THEN Panic("position: unwrap on None")
                          ELSE LET object_type ==
                                       SubSeq(decoded_bytes, 1, index_of_first_whitespace)
                                   contents ==
                                       byte_contents(decoded_bytes, index_of_first_null)
                               IN  IF object_type = str_blob
                                   THEN [ok |-> TRUE, object |-> GitBlob(contents)]
                                   ELSE IF object_type = str_tree
                                   THEN LET t == GitTree_deserialize(contents)
                                        IN  IF ~t.ok THEN t
                                            ELSE [ok |-> TRUE,
                                                  object |-> GitTree(t.leaves)]
                                   ELSE Panic("unknown object type")

(***************************************************************************)
(* Inputs of the tree codec.                                               *)
(***************************************************************************)
mode_100644 == <<49, 48, 48, 54, 52, 52>>
mode_40000 == <<52, 48, 48, 48, 48>>
mode_040000 == <<48, 52, 48, 48, 48, 48>>
mode_1006440 == <<49, 48, 48, 54, 52, 52, 48>>

path_a == <<97>>
path_a_txt == <<97, 46, 116, 120, 116>>
path_b_txt == <<98, 46, 116, 120, 116>>
path_a0 == <<97, 48>>
path_a_backslash == <<97, 92>>
path_e_acute == <<195, 169>>
path_src == <<115, 114, 99>>

Modes == {mode_100644, mode_40000, mode_040000}
Paths == {path_a, path_a_txt, path_b_txt, path_a0, path_a_backslash,
          path_e_acute, path_src}
\* digests whose raw bytes are all NUL, and all 0xab
ShaHashes == {hex_encode(Rep(0, ShaLen)), hex_encode(Rep(171, ShaLen))}

Leaves == {GitTreeLeaf(m, p, h) : m \in Modes, p \in Paths, h \in ShaHashes}

DistinctPaths(ls) ==
    \A i, j \in 1..Len(ls) : i # j => ls[i].path # ls[j].path

SeqsUpTo(S, n) == UNION {[1..k -> S] : k \in 0..n}

LeafSeqs == {ls \in SeqsUpTo(Leaves, MaxLeaves) : DistinctPaths(ls)}

\* raw payloads: entries laid out one after the other and cut anywhere
RawModes == {mode_100644, <<>>, mode_1006440}
RawPaths == {<<>>, path_a}
RawSha == hex_encode([i \in 1..ShaLen |-> IF i % 2 = 1 THEN NUL ELSE SP])
RawLeaves == {GitTreeLeaf(m, p, RawSha) : m \in RawModes, p \in RawPaths}
RawLeafSeqs == SeqsUpTo(RawLeaves, MaxRawLeaves)

NotYet == [ok |-> FALSE, panic |-> "not called"]

(***************************************************************************)
(* The tree codec as a state machine.                                      *)
(***************************************************************************)
EmptyFiles == [q \in {} |-> <<>>]

StoreIdle ==
    /\ files = EmptyFiles
    /\ dirs = {}
    /\ ret = [op |-> "none"]
    /\ ncalls = 0
    /\ wpc = "idle"
    /\ wobj = [ok |-> FALSE]
    /\ pre = [files |-> EmptyFiles, dirs |-> {}]

\* a GitTree is built from some leaves
InitTree ==
    /\ leaves \in LeafSeqs
    /\ serialized = NotYet
    /\ raw_bytes = <<>>
    /\ index = 0
    /\ result = <<>>
    /\ pc = "start"
    /\ StoreIdle

\* GitTree::serialize
Serialize ==
    /\ pc = "start"
    /\ serialized' = GitTree_serialize(leaves)
    /\ pc' = "serialized"
    /\ UNCHANGED <<leaves, raw_bytes, index, result>>
    /\ UNCHANGED <<storeVars, writeVars>>

\* GitTree::deserialize on the serialized payload: tree_parse starts
Deserialize ==
    /\ pc = "serialized"
    /\ serialized.ok
    /\ raw_bytes' = serialized.bytes
    /\ index' = 0
    /\ result' = <<>>
    /\ pc' = "parsing"
    /\ UNCHANGED <<leaves, serialized>>
    /\ UNCHANGED <<storeVars, writeVars>>

\* tree_parse: one turn of `while index < raw_bytes.len()`
TreeParseStep ==
    /\ pc = "parsing"
    /\ index < Len(raw_bytes)
    /\ LET one == tree_parse_one(raw_bytes, index)
       IN  IF one.ok
           THEN /\ result' = Append(result, one.leaf)
                /\ index' = one.index
                /\ pc' = "parsing"
           ELSE /\ pc' = "panicked"
                /\ UNCHANGED <<result, index>>
    /\ UNCHANGED <<leaves, serialized, raw_bytes>>
    /\ UNCHANGED <<storeVars, writeVars>>

\* tree_parse: the loop ends and `result` is returned
TreeParseReturn ==
    /\ pc = "parsing"
    /\ ~(index < Len(raw_bytes))
    /\ pc' = "done"
    /\ UNCHANGED <<leaves, serialized, raw_bytes, index, result>>
    /\ UNCHANGED <<storeVars, writeVars>>

NextTree == Serialize \/ Deserialize \/ TreeParseStep \/ TreeParseReturn

SpecTree == InitTree /\ [][NextTree]_vars

\* tree_parse is handed a payload that may end anywhere
InitParse ==
    /\ leaves \in RawLeafSeqs
    /\ serialized = emit_leaves(leaves)
    /\ \E n \in 0..Len(serialized.bytes) :
           raw_bytes = SubSeq(serialized.bytes, 1, n)
    /\ index = 0
    /\ result = <<>>
    /\ pc = "parsing"
    /\ StoreIdle

NextParse == TreeParseStep \/ TreeParseReturn

SpecParse == InitParse /\ [][NextParse]_vars

(***************************************************************************)
(* Vocabulary of the claims about the tree codec.                          *)
(***************************************************************************)
IsOctalDigits(m) == \A i \in 1..Len(m) : m[i] >= 48 /\ m[i] <= 55

WellFormedLeaf(leaf) ==
    /\ Len(leaf.mode) \in {5, 6}
    /\ IsOctalDigits(leaf.mode)
    /\ \A i \in 1..Len(leaf.path) : leaf.path[i] # NUL
    /\ Len(leaf.sha_hash) = 2 * ShaLen
    /\ hex_decode(leaf.sha_hash).ok

WellFormedTree(ls) ==
    /\ DistinctPaths(ls)
    /\ \A i \in 1..Len(ls) : WellFormedLeaf(ls[i])

\* a 5-digit mode left-padded with '0' to 6 digits
Pad6(mode) == IF Len(mode) = 5 THEN <<48>> \o mode ELSE mode

\* the sort key as the specification words it: path, or path and a slash
SlashKey(leaf) ==
    IF starts_with(leaf.mode, <<49, 48>>) THEN leaf.path ELSE leaf.path \o <<47>>

CanonicalOrder(ls) ==
    \A i \in 1..(Len(ls) - 1) : LexLess(SlashKey(ls[i]), SlashKey(ls[i + 1]))

Reorderings(ls) ==
    {[i \in 1..Len(ls) |-> ls[f[i]]] : f \in Permutations(1..Len(ls))}

Range(s) == {s[i] : i \in 1..Len(s)}

sha_ab == hex_encode(Rep(171, ShaLen))

ExampleTree ==
    <<GitTreeLeaf(mode_100644, path_b_txt, sha_ab),
      GitTreeLeaf(mode_40000, path_a, sha_ab),
      GitTreeLeaf(mode_100644, path_a_txt, sha_ab)>>

ExampleOrder == <<ExampleTree[3], ExampleTree[2], ExampleTree[1]>>

\* C2: for every sequence E of well-formed tree entries with distinct paths,
\* tree_parse(GitTree::serialize(E)) returns exactly the entries of E (mode
\* compared after padding to 6 digits, path and digest as they are), none
\* lost and none added, in the canonical sort order.
C2_TreeRoundTrip ==
    (pc = "done" /\ WellFormedTree(leaves)) =>
        /\ Len(result) = Len(leaves)
        /\ Range(result) = {[l EXCEPT !.mode = Pad6(l.mode)] : l \in Range(leaves)}
        /\ CanonicalOrder(result)

\* C3: two trees whose leaves are permutations of the same entries with
\* distinct paths serialize to the same bytes.
C3_OrderIndependent ==
    (pc = "serialized" /\ WellFormedTree(leaves)) =>
        \A other \in Reorderings(leaves) : GitTree_serialize(other) = serialized

\* C6: GitTree::serialize emits the entries in ascending byte-wise order of
\* the key path (mode starts with "10") or path + '/' (any other mode); the
\* entries {100644 b.txt, 40000 a, 100644 a.txt} come out as a.txt, a, b.txt.
C6_SlashKeyOrder ==
    (pc = "serialized" /\ WellFormedTree(leaves)) =>
        /\ serialized.ok
        /\ \E o \in Reorderings(leaves) :
               CanonicalOrder(o) /\ serialized.bytes = emit_leaves(o).bytes
        /\ (leaves = ExampleTree =>
               serialized.bytes = emit_leaves(ExampleOrder).bytes)

\* C7: every entry tree_parse_one returns for a payload entry whose mode has
\* 5 digits has the mode '0' followed by those digits (a 6-digit mode comes
\* back unchanged), and GitTree::serialize writes the entry 40000 src with
\* the mode bytes "040000".
C7_ModeSixDigits ==
    /\ (pc \in {"parsing", "done"} /\ WellFormedTree(leaves)) =>
           \A i \in 1..Len(result) :
               result[i].mode = Pad6(sort_by_key(leaves)[i].mode)
    /\ (pc = "serialized"
            /\ leaves = <<GitTreeLeaf(mode_40000, path_src, sha_ab)>>) =>
           starts_with(serialized.bytes, mode_040000 \o <<SP>>)

(***************************************************************************)
(* Vocabulary of the claims about tree_parse on arbitrary payloads.        *)
(***************************************************************************)
EntryLen(leaf) == Len(leaf.mode) + 1 + Len(leaf.path) + 1 + ShaLen

RECURSIVE SumLen(_)
SumLen(ls) == IF ls = <<>> THEN 0 ELSE EntryLen(Head(ls)) + SumLen(Tail(ls))

\* the payload lengths at which an entry ends
Boundaries == {SumLen(SubSeq(leaves, 1, k)) : k \in 0..Len(leaves)}

\* the payload ends in the middle of an entry
Truncated == Len(raw_bytes) \notin Boundaries

\* one space, one NUL and the digest bytes
MinEntryLen == 1 + 1 + ShaLen

\* C8: on a payload that ends in the middle of an entry tree_parse fails: it
\* never returns a list of entries.
C8_TruncatedFails ==
    Truncated => (pc # "done" /\ ~tree_parse(raw_bytes).ok)

\* a payload of one whole entry and the first bytes of a second one has been
\* parsed up to the second entry, where tree_parse_one panicked
C8_Witness ==
    /\ Truncated
    /\ pc = "panicked"
    /\ Len(result) = 1
    /\ index = EntryLen(leaves[1])
    /\ Len(raw_bytes) > index

\* C10: every call of tree_parse_one that does not fail moves the index
\* forward by at least 22 and never past the end of the payload; a normal
\* return happens with the index at the payload length exactly, after at most
\* len / 22 entries.
C10_ParseProgress ==
    /\ [][(pc = "parsing" /\ pc' = "parsing") =>
              (index' >= index + MinEntryLen /\ index' <= Len(raw_bytes))]_vars
    /\ [](pc = "done" =>
              (index = Len(raw_bytes)
               /\ MinEntryLen * Len(result) <= Len(raw_bytes)))

\* two entries of the minimal length 22 have been parsed and returned
C10_Witness ==
    /\ pc = "done"
    /\ Len(result) = 2
    /\ Len(raw_bytes) = 2 * MinEntryLen
    /\ index = Len(raw_bytes)

(***************************************************************************)
(* The object store as a state machine: every call runs to its end.        *)
(***************************************************************************)
payload_hi == <<104, 105>>

BlobPayloads == SeqsUpTo({NUL, SP}, MaxBlobLen) \cup {payload_hi}

StoreLeaves ==
    {GitTreeLeaf(mode_100644, path_a_txt, sha_ab),
     GitTreeLeaf(mode_40000, path_a, hex_encode(Rep(0, ShaLen)))}

StoreTrees == {ls \in SeqsUpTo(StoreLeaves, 2) : DistinctPaths(ls)}

Objects == {GitBlob(p) : p \in BlobPayloads} \cup {GitTree(ls) : ls \in StoreTrees}

\* a digest no object of the model has
MissingHash == hex_encode(Rep(255, ShaLen))

CodecIdle ==
    /\ leaves = <<>>
    /\ serialized = NotYet
    /\ raw_bytes = <<>>
    /\ index = 0
    /\ result = <<>>
    /\ pc = "idle"

\* after `init`: .git/objects exists and is empty
Init == CodecIdle /\ StoreIdle

\* write_object(object), from the call to the return or the panic
WriteObject(object) ==
    /\ ncalls < MaxCalls
    /\ ncalls' = ncalls + 1
    /\ LET plan == write_plan(object)
       IN  IF plan.ok
           THEN /\ dirs' = dirs \cup {plan.path.dir}
                /\ files' = fs_write(files, plan.path, plan.compressed)
                /\ ret' = [op |-> "write", object |-> object, ok |-> TRUE,
                           hash |-> plan.sha_string]
           ELSE /\ ret' = [op |-> "write", object |-> object, ok |-> FALSE,
                           hash |-> <<>>]
                /\ UNCHANGED <<files, dirs>>
    /\ UNCHANGED <<codecVars, writeVars>>

\* read_object(hash), for the digest of a stored object or one that is absent
ReadObject(hash) ==
    /\ ret' = [op |-> "read", hash |-> hash, out |-> read_object(files, hash)]
    /\ UNCHANGED <<files, dirs, ncalls>>
    /\ UNCHANGED <<codecVars, writeVars>>

StoredHashes == {q.dir \o q.file : q \in DOMAIN files}

Next ==
    \/ \E object \in Objects : WriteObject(object)
    \/ \E hash \in StoredHashes \cup {MissingHash} : ReadObject(hash)

Spec == Init /\ [][Next]_vars

(***************************************************************************)
(* One write_object call step by step, over a filesystem whose calls can   *)
(* fail: each `unwrap()` is a place where the call panics.                 *)
(***************************************************************************)
\* write_object up to `let path = ...`: nothing has touched the filesystem
WriteBegin(object) ==
    /\ wpc \in {"idle", "failed"}
    /\ ncalls < MaxCalls
    /\ ncalls' = ncalls + 1
    /\ wobj' = write_plan(object)
    /\ pre' = [files |-> files, dirs |-> dirs]
    /\ wpc' = IF wobj'.ok THEN "create_dir_all" ELSE "failed"
    /\ UNCHANGED <<files, dirs, ret>>
    /\ UNCHANGED codecVars

\* fs::create_dir_all(".git/objects/<xx>").unwrap()
CreateDirAll ==
    /\ wpc = "create_dir_all"
    /\ \/ /\ dirs' = dirs \cup {wobj.path.dir}
          /\ wpc' = "fs_write"
       \/ /\ wpc' = "failed"
          /\ UNCHANGED dirs
    /\ UNCHANGED <<files, ret, ncalls, wobj, pre>>
    /\ UNCHANGED codecVars

\* fs::write(path, compressed).unwrap(): the file is created or truncated,
\* then written; either step can fail
FsWrite ==
    /\ wpc = "fs_write"
    /\ \/ /\ files' = fs_write(files, wobj.path, wobj.compressed)
          /\ wpc' = "idle"
          /\ ret' = [op |-> "write", ok |-> TRUE, hash |-> wobj.sha_string]
       \/ /\ wpc' = "failed"
          /\ UNCHANGED <<files, ret>>
       \/ /\ \E n \in {0, Len(wobj.compressed) \div 2} :
                 files' = fs_write(files, wobj.path, SubSeq(wobj.compressed, 1, n))
          /\ wpc' = "failed"
          /\ UNCHANGED ret
    /\ UNCHANGED <<dirs, ncalls, wobj, pre>>
    /\ UNCHANGED codecVars

NextFault ==
    \/ \E object \in Objects : WriteBegin(object)
    \/ CreateDirAll
    \/ FsWrite

SpecFault == Init /\ [][NextFault]_vars

(***************************************************************************)
(* Claims about the store.                                                 *)
(***************************************************************************)
\* C1: reading back the object written for Blob(p) yields a blob whose data
\* is exactly p, for every payload p (empty, or holding space or NUL bytes).
C1_BlobRoundTrip ==
    \A p \in BlobPayloads :
        (/\ ret.op = "read"
         /\ ret.hash = write_plan(GitBlob(p)).sha_string
         /\ object_path(ret.hash) \in DOMAIN files)
        => ret.out = [ok |-> TRUE, object |-> GitBlob(p)]

\* the blob whose payload is a NUL and a space has been written and read back
C1_Witness ==
    /\ ret.op = "read"
    /\ ret.out.ok
    /\ ret.out.object = GitBlob(<<NUL, SP>>)
    /\ ret.hash = write_plan(GitBlob(<<NUL, SP>>)).sha_string

IsDecimal(digits) ==
    /\ Len(digits) >= 1
    /\ \A i \in 1..Len(digits) : digits[i] >= 48 /\ digits[i] <= 57
    /\ (Len(digits) > 1 => digits[1] # 48)

RECURSIVE DecimalValue(_)
DecimalValue(digits) ==
    IF digits = <<>> THEN 0
    ELSE 10 * DecimalValue(SubSeq(digits, 1, Len(digits) - 1))
         + (digits[Len(digits)] - 48)

\* bytes of the shape kind SP decimal-length NUL payload, the length being
\* the number of payload bytes
IsEnvelope(e) ==
    \E kind \in {str_blob, str_tree} :
        /\ starts_with(e, kind \o <<SP>>)
        /\ \E nul \in (Len(kind) + 2)..Len(e) :
               /\ e[nul] = NUL
               /\ LET digits == SubSeq(e, Len(kind) + 2, nul - 1)
                  IN  /\ IsDecimal(digits)
                      /\ DecimalValue(digits) = Len(e) - nul

C9_WriteAtomic ==
    /\ (wpc = "failed" => (files = pre.files /\ dirs = pre.dirs))
    /\ ((wpc = "idle" /\ wobj.ok) =>
            (wobj.path \in DOMAIN files /\ files[wobj.path] = wobj.compressed))

====
